---------------------------- MODULE Spec2Model ----------------------------
(***************************************************************************)
(* A model of fast_dissolve.py: close_holes, fill_geopandas and            *)
(* dissolve_geopandas.                                                     *)
(*                                                                         *)
(* Two views of a shapely geometry are used, each for the code that reads  *)
(* it.  close_holes reads the rings of a Polygon, so there a polygon is a  *)
(* record of an exterior ring and a sequence of interior rings, each ring  *)
(* a closed sequence of integer points.  dissolve_geopandas only hands     *)
(* geometries to point-set operations (total_bounds, clip, buffer,         *)
(* explode), so there a geometry is its footprint: a set of unit cells     *)
(* <<x, y>>, the cell covering [x, x+1] x [y, y+1], together with its type *)
(* (Polygon or MultiPolygon).                                              *)
(***************************************************************************)
EXTENDS Integers, Sequences, FiniteSets

VARIABLES
    pc,         \* the position in the function being run
    fill_df,    \* fill_geopandas: the input collection (ring polygons)
    fill_df0,   \* history: fill_df as it was handed in
    area_max,   \* fill_geopandas / close_holes: the threshold
    filled,     \* fill_geopandas: the rows apply() has produced so far
    df,         \* dissolve_geopandas: the input GeoDataFrame
    box,        \* dissolve_geopandas: left, bottom, right, top
    rect,       \* dissolve_geopandas: the one-row rectangle frame
    clipped,    \* dissolve_geopandas: the clip result, then its buffered rows
    clipped_,   \* dissolve_geopandas: the series that is returned
    i,          \* dissolve_geopandas: the loop's index label
    lastMP      \* history: 1 + the label of the last MultiPolygon row the loop met (0: none)

vars == <<pc, fill_df, fill_df0, area_max, filled, df, box, rect, clipped, clipped_, i, lastMP>>

fillVars == <<fill_df, fill_df0, area_max, filled>>
dissolveVars == <<df, box, rect, clipped, clipped_, i, lastMP>>

-----------------------------------------------------------------------------
(* Bounds of the model *)

MaxRows == 2        \* rows of a collection given to fill_geopandas
MaxHoles == 2       \* interior rings of a polygon
MaxAreaMax == 2     \* the largest area_max tried
MaxPolys == 2       \* rows of a collection given to dissolve_geopandas
MaxSeries == 3      \* rows of a buffered result given to the normalisation loop
Scale == 3          \* fine cells per coordinate unit (the resolution buffer works at)

NoCRS == "None"
CRSs == {"EPSG:4326", NoCRS}

Abs(n) == IF n < 0 THEN -n ELSE n

Range(s) == {s[k] : k \in DOMAIN s}

SeqsUpTo(S, n) == UNION {[1..m -> S] : m \in 1..n}

-----------------------------------------------------------------------------
(* Ring polygons: close_holes and fill_geopandas *)

\* shapely's Polygon(shell, holes): a new object (id 0) with these rings.
Polygon(shell, holes) == [id |-> 0, exterior |-> shell, interiors |-> holes]

\* Twice the signed area of a closed ring (the shoelace sum).
RECURSIVE Shoelace(_, _)
Shoelace(ring, k) ==
    IF k >= Len(ring) THEN 0
    ELSE ring[k][1] * ring[k + 1][2] - ring[k + 1][1] * ring[k][2] + Shoelace(ring, k + 1)

\* Twice Polygon.area: the exterior's unsigned area less that of the holes.
RECURSIVE HolesArea2(_, _)
HolesArea2(holes, k) ==
    IF k > Len(holes) THEN 0 ELSE Abs(Shoelace(holes[k], 1)) + HolesArea2(holes, k + 1)

Area2(poly) == Abs(Shoelace(poly.exterior, 1)) - HolesArea2(poly.interiors, 1)

\* The threshold test of a mutated close_holes: >= instead of >.
KeepHoleGE(interior, amax) == Area2(Polygon(interior, <<>>)) >= 2 * amax

\* Line 56-57: p = Polygon(interior); p.area > area_max.
KeepHole(interior, amax) == Area2(Polygon(interior, <<>>)) > 2 * amax

\* Lines 53-58: the interiors appended to list_interiors, in order.
list_interiors(poly, amax) == SelectSeq(poly.interiors, LAMBDA r : KeepHole(r, amax))

\* A mutated close_holes: no special case for area_max == 0.
close_holes_nozero(poly, amax) == Polygon(poly.exterior, list_interiors(poly, amax))

close_holes(poly, amax) ==
    IF amax = 0
    THEN IF poly.interiors # <<>>
         THEN Polygon(poly.exterior, <<>>)
         ELSE poly
    ELSE Polygon(poly.exterior, list_interiors(poly, amax))

\* Closed rings over integer points.
RectRing(x0, y0, x1, y1) == <<<<x0, y0>>, <<x1, y0>>, <<x1, y1>>, <<x0, y1>>, <<x0, y0>>>>
RectRingCW(x0, y0, x1, y1) == <<<<x0, y0>>, <<x0, y1>>, <<x1, y1>>, <<x1, y0>>, <<x0, y0>>>>

Shell == RectRing(0, 0, 6, 6)

\* Disjoint holes inside Shell, of areas 1/2, 1 and 2, in both orientations.
HoleRings ==
    { <<<<1, 1>>, <<2, 1>>, <<1, 2>>, <<1, 1>>>>,
      RectRingCW(3, 1, 4, 2),
      RectRing(1, 3, 3, 4) }

InjectiveSeqs(S, n) ==
    {s \in UNION {[1..m -> S] : m \in 0..n} : \A a, b \in DOMAIN s : a # b => s[a] # s[b]}

InputPolygons == {[exterior |-> Shell, interiors |-> h] : h \in InjectiveSeqs(HoleRings, MaxHoles)}

\* The rows of a collection are distinct objects: row k has id k.
Collection(s) == [k \in DOMAIN s |-> [id |-> k, exterior |-> s[k].exterior, interiors |-> s[k].interiors]]

AreaMaxes == (0 - 1)..MaxAreaMax

InitFill ==
    /\ pc = "apply"
    /\ \E s \in SeqsUpTo(InputPolygons, MaxRows) :
          /\ fill_df = Collection(s)
          /\ fill_df0 = Collection(s)
    /\ area_max \in AreaMaxes
    /\ filled = <<>>
    /\ df = [crs |-> NoCRS, rows |-> <<>>]
    /\ box = [left |-> 0, bottom |-> 0, right |-> 0, top |-> 0]
    /\ rect = [crs |-> NoCRS, rows |-> <<>>]
    /\ clipped = [crs |-> NoCRS, rows |-> <<>>]
    /\ clipped_ = [crs |-> NoCRS, rows |-> <<>>]
    /\ i = 0
    /\ lastMP = 0

\* A mutated apply: the rows come out in reverse order.
ApplyRowPrepend(out, p, amax) == <<close_holes(p, amax)>> \o out

\* Line 75: apply() calls the lambda on the next row and collects its result.
ApplyRow(out, p, amax) == Append(out, close_holes(p, amax))

\* Line 75, one row of df.geometry.apply.
FillApply ==
    /\ pc = "apply"
    /\ Len(filled) < Len(fill_df)
    /\ filled' = ApplyRow(filled, fill_df[Len(filled) + 1], area_max)
    /\ UNCHANGED <<pc, fill_df, fill_df0, area_max>>
    /\ UNCHANGED dissolveVars

\* Line 76: return filled.
FillReturn ==
    /\ pc = "apply"
    /\ Len(filled) = Len(fill_df)
    /\ pc' = "filled"
    /\ UNCHANGED fillVars
    /\ UNCHANGED dissolveVars

NextFill == FillApply \/ FillReturn

SpecFill == InitFill /\ [][NextFill]_vars


-----------------------------------------------------------------------------
(* Footprints: the point-set operations dissolve_geopandas calls *)

Rect(x0, y0, x1, y1) == {<<x, y>> : x \in x0..(x1 - 1), y \in y0..(y1 - 1)}

\* Two cells share an edge.  Cells that meet only at a corner belong to
\* different polygons: a valid Polygon has a connected interior.
Adjacent(c, d) == Abs(c[1] - d[1]) + Abs(c[2] - d[2]) = 1

MinCell(S) == CHOOSE c \in S : \A d \in S : c[1] < d[1] \/ (c[1] = d[1] /\ c[2] <= d[2])

RECURSIVE Grow(_, _)
Grow(C, S) ==
    LET nxt == C \cup {c \in S : \E d \in C : Adjacent(c, d)}
    IN  IF nxt = C THEN C ELSE Grow(nxt, S)

\* The connected parts of a footprint, ordered by their least cell.
RECURSIVE PartsSeq(_)
PartsSeq(S) ==
    IF S = {} THEN <<>>
    ELSE LET comp == Grow({MinCell(S)}, S)
         IN  <<comp>> \o PartsSeq(S \ comp)

Components(S) == Range(PartsSeq(S))

\* The geometry GEOS returns for a footprint: a MultiPolygon when it has
\* several parts.
MkGeom(cells) ==
    [type |-> IF Len(PartsSeq(cells)) > 1 THEN "MultiPolygon" ELSE "Polygon", cells |-> cells]

\* A footprint has an interior ring when its complement has a bounded part.
HasHole(cells) ==
    IF cells = {} THEN FALSE
    ELSE LET xs == {c[1] : c \in cells}
             ys == {c[2] : c \in cells}
             x0 == CHOOSE x \in xs : \A z \in xs : x <= z
             x1 == CHOOSE x \in xs : \A z \in xs : x >= z
             y0 == CHOOSE y \in ys : \A z \in ys : y <= z
             y1 == CHOOSE y \in ys : \A z \in ys : y >= z
             window == Rect(x0 - 1, y0 - 1, x1 + 2, y1 + 2)
         IN  Len(PartsSeq(window \ cells)) > 1

UnionCells(rows) == UNION {rows[k].cells : k \in DOMAIN rows}

\* Line 30.  dist is one fine cell, 1/Scale of a coordinate unit: as in the
\* code it is below the width of every feature of the input.
dist == 1

Refine(cells) ==
    {<<Scale * c[1] + a, Scale * c[2] + b>> : c \in cells, a \in 0..(Scale - 1), b \in 0..(Scale - 1)}

\* buffer(d, join_style=2): the mitred offset of a rectilinear footprint is
\* its dilation by the square of half-width d.
Dilate(F, d) == {<<p[1] + dx, p[2] + dy>> : p \in F, dx \in (0 - d)..d, dy \in (0 - d)..d}

\* buffer(-d, join_style=2).
Erode(F, d) == {p \in F : \A dx \in (0 - d)..d, dy \in (0 - d)..d : <<p[1] + dx, p[2] + dy>> \in F}

Coarsen(F) ==
    {c \in {<<p[1] \div Scale, p[2] \div Scale>> : p \in F} : Refine({c}) \subseteq F}

\* Lines 27-31.
buffer(poly) == MkGeom(Coarsen(Erode(Dilate(Refine(poly.cells), dist), dist)))

\* Line 92: df.total_bounds.
total_bounds(d) ==
    LET cells == UnionCells(d.rows)
        xs == {c[1] : c \in cells}
        ys == {c[2] : c \in cells}
    IN  [left   |-> CHOOSE x \in xs : \A z \in xs : x <= z,
         bottom |-> CHOOSE y \in ys : \A z \in ys : y <= z,
         right  |-> 1 + CHOOSE x \in xs : \A z \in xs : x >= z,
         top    |-> 1 + CHOOSE y \in ys : \A z \in ys : y >= z]

\* A mutated expansion: the left edge moves inwards.
ExpandLeftIn(b) ==
    [left |-> b.left + 1, bottom |-> b.bottom - 1, right |-> b.right + 1, top |-> b.top + 1]

\* Lines 93-96.
Expand(b) ==
    [left |-> b.left - 1, bottom |-> b.bottom - 1, right |-> b.right + 1, top |-> b.top + 1]

\* Lines 98-101: zip(lat_point_list, lon_point_list).
polygon_geom(b) ==
    <<<<b.left, b.top>>, <<b.right, b.top>>, <<b.right, b.bottom>>,
      <<b.left, b.bottom>>, <<b.left, b.top>>>>

\* The footprint of the Polygon built from an axis-parallel rectangular ring.
RingCells(ring) ==
    LET xs == {ring[k][1] : k \in DOMAIN ring}
        ys == {ring[k][2] : k \in DOMAIN ring}
    IN  Rect(CHOOSE x \in xs : \A z \in xs : x <= z,
             CHOOSE y \in ys : \A z \in ys : y <= z,
             CHOOSE x \in xs : \A z \in xs : x >= z,
             CHOOSE y \in ys : \A z \in ys : y >= z)

\* Line 103, gpd.clip(gdf, mask): every row of gdf cut to the union of the
\* mask's geometries, rows left empty dropped, gdf's CRS kept.
clip(gdf, mask) ==
    LET m == UnionCells(mask.rows)
        cut == [k \in DOMAIN gdf.rows |-> MkGeom(gdf.rows[k].cells \cap m)]
    IN  [crs |-> gdf.crs, rows |-> SelectSeq(cut, LAMBDA g : g.cells # {})]

\* Lines 113-115: the MultiPolygon alone in a fresh GeoSeries (no CRS given),
\* exploded into one row per polygon.
clipped_explode(series, lbl) ==
    LET parts == PartsSeq(series.rows[lbl + 1].cells)
    IN  [crs |-> NoCRS,
         rows |-> [k \in DOMAIN parts |-> [type |-> "Polygon", cells |-> parts[k]]]]

\* series.loc[lbl:] on the index 0..n-1.
LocFrom(series, lbl) ==
    [crs |-> series.crs, rows |-> SubSeq(series.rows, lbl + 1, Len(series.rows))]

\* pd.concat of GeoSeries: pandas leaves the empty operands out (unless all
\* are empty) and the result takes the one CRS the others carry, if any.
concat(a, b) ==
    LET used == IF a.rows = <<>> /\ b.rows = <<>> THEN {a, b}
                ELSE {s \in {a, b} : s.rows # <<>>}
        named == {s.crs : s \in used} \ {NoCRS}
    IN  [crs |-> IF named = {} THEN NoCRS ELSE CHOOSE c \in named : TRUE,
         rows |-> a.rows \o b.rows]

\* A mutated loop body: the slice starts at the MultiPolygon row itself.
NormaliseRowKeep(series, lbl) == concat(LocFrom(series, lbl), clipped_explode(series, lbl))

\* A mutated loop body: the exploded rows come first.
NormaliseRowFirst(series, lbl) == concat(clipped_explode(series, lbl), LocFrom(series, lbl + 1))

\* A mutated loop body: only the first exploded row is kept.
NormaliseRowHead(series, lbl) ==
    LET e == clipped_explode(series, lbl)
    IN  concat(LocFrom(series, lbl + 1), [crs |-> e.crs, rows |-> SubSeq(e.rows, 1, 1)])

\* Lines 116-122: the new clipped_ when row lbl is a MultiPolygon.
NormaliseRow(series, lbl) == concat(LocFrom(series, lbl + 1), clipped_explode(series, lbl))

-----------------------------------------------------------------------------
(* dissolve_geopandas *)

Ring3 == Rect(0, 0, 3, 3) \ Rect(1, 1, 2, 2)

\* Input footprints: single squares (apart, corner to corner, edge to edge),
\* bars, the full square, a ring (a polygon with an interior ring), a U that
\* a bar closes into a ring, and a two-part MultiPolygon.
InputCells ==
    { Rect(0, 0, 1, 1), Rect(2, 2, 3, 3), Rect(1, 1, 2, 2), Rect(1, 0, 2, 1),
      Rect(0, 0, 2, 2), Rect(0, 2, 3, 3), Rect(0, 0, 3, 3),
      Ring3, Ring3 \ {<<1, 2>>},
      Rect(0, 0, 1, 1) \cup Rect(2, 0, 3, 1) }

InputGeoms == {MkGeom(c) : c \in InputCells}

NoSeries == [crs |-> NoCRS, rows |-> <<>>]
NoBox == [left |-> 0, bottom |-> 0, right |-> 0, top |-> 0]

FillIdle ==
    /\ fill_df = <<>>
    /\ fill_df0 = <<>>
    /\ area_max = 0
    /\ filled = <<>>

InitDissolve ==
    /\ pc = "bounds"
    /\ \E c \in CRSs, s \in SeqsUpTo(InputGeoms, MaxPolys) : df = [crs |-> c, rows |-> s]
    /\ box = NoBox
    /\ rect = NoSeries
    /\ clipped = NoSeries
    /\ clipped_ = NoSeries
    /\ i = 0
    /\ lastMP = 0
    /\ FillIdle

\* Lines 92-96.
Bounds ==
    /\ pc = "bounds"
    /\ box' = Expand(total_bounds(df))
    /\ pc' = "rect"
    /\ UNCHANGED <<df, rect, clipped, clipped_, i, lastMP>>
    /\ UNCHANGED fillVars

\* Lines 98-102.
MakeRect ==
    /\ pc = "rect"
    /\ rect' = [crs |-> df.crs, rows |-> <<MkGeom(RingCells(polygon_geom(box)))>>]
    /\ pc' = "clip"
    /\ UNCHANGED <<df, box, clipped, clipped_, i, lastMP>>
    /\ UNCHANGED fillVars

\* Line 103.
Clip ==
    /\ pc = "clip"
    /\ clipped' = clip(rect, df)
    /\ pc' = "buffer"
    /\ UNCHANGED <<df, box, rect, clipped_, i, lastMP>>
    /\ UNCHANGED fillVars

\* Line 107: GeoSeries.apply keeps the CRS of the series.
Buffer ==
    /\ pc = "buffer"
    /\ clipped' = [crs |-> clipped.crs, rows |-> [k \in DOMAIN clipped.rows |-> buffer(clipped.rows[k])]]
    /\ pc' = "copy"
    /\ UNCHANGED <<df, box, rect, clipped_, i, lastMP>>
    /\ UNCHANGED fillVars

\* Line 109.
Copy ==
    /\ pc = "copy"
    /\ clipped_' = clipped
    /\ i' = 0
    /\ pc' = "loop"
    /\ UNCHANGED <<df, box, rect, clipped, lastMP>>
    /\ UNCHANGED fillVars

\* Lines 111-122, one iteration of the loop over clipped.index.
LoopStep ==
    /\ pc = "loop"
    /\ i < Len(clipped.rows)
    /\ IF clipped.rows[i + 1].type = "MultiPolygon"
       THEN /\ clipped_' = NormaliseRow(clipped, i)
            /\ lastMP' = i + 1
       ELSE UNCHANGED <<clipped_, lastMP>>
    /\ i' = i + 1
    /\ UNCHANGED <<pc, df, box, rect, clipped>>
    /\ UNCHANGED fillVars

\* Line 124.
Return ==
    /\ pc = "loop"
    /\ i = Len(clipped.rows)
    /\ pc' = "done"
    /\ UNCHANGED dissolveVars
    /\ UNCHANGED fillVars

NextDissolve == Bounds \/ MakeRect \/ Clip \/ Buffer \/ Copy \/ LoopStep \/ Return

SpecDissolve == InitDissolve /\ [][NextDissolve]_vars

-----------------------------------------------------------------------------
(* The normalisation loop (lines 109-124) on a buffered result of any length *)

SeriesGeoms ==
    { MkGeom(Rect(0, 0, 1, 1)), MkGeom(Rect(0, 2, 2, 3)),
      MkGeom(Rect(0, 0, 1, 1) \cup Rect(2, 0, 3, 1)),
      MkGeom(Rect(0, 0, 1, 1) \cup Rect(1, 1, 2, 2) \cup Rect(2, 2, 3, 3)) }

InitNorm ==
    /\ pc = "copy"
    /\ \E c \in CRSs, s \in SeqsUpTo(SeriesGeoms, MaxSeries) :
          /\ df = [crs |-> c, rows |-> <<>>]
          /\ clipped = [crs |-> c, rows |-> s]
    /\ box = NoBox
    /\ rect = NoSeries
    /\ clipped_ = NoSeries
    /\ i = 0
    /\ lastMP = 0
    /\ FillIdle

NextNorm == Copy \/ LoopStep \/ Return

SpecNorm == InitNorm /\ [][NextNorm]_vars

-----------------------------------------------------------------------------
(* Properties of dissolve_geopandas: checked under SpecDissolve *)

Done == pc = "done"

InputFootprint == UnionCells(df.rows)

C2_OneRowPerPart ==
    (Done /\ Len(clipped.rows) = 1 /\ clipped.rows[1].type = "MultiPolygon") =>
        LET parts == Components(clipped.rows[1].cells)
            out == clipped_.rows
        IN  /\ Cardinality(parts) >= 2
            /\ Len(out) = Cardinality(parts)
            /\ \A k \in DOMAIN out :
                  /\ out[k].type = "Polygon"
                  /\ Len(PartsSeq(out[k].cells)) = 1
                  /\ out[k].cells \in parts
            /\ \A p \in parts : \E k \in DOMAIN out : out[k].cells = p

\* C2's case: two disjoint input polygons come back as two rows, one each.
C2_Witness ==
    /\ Done
    /\ Len(df.rows) = 2
    /\ df.rows[1].type = "Polygon" /\ df.rows[2].type = "Polygon"
    /\ clipped.rows[1].type = "MultiPolygon"
    /\ Len(clipped_.rows) = 2
    /\ {clipped_.rows[1].cells, clipped_.rows[2].cells} = {df.rows[1].cells, df.rows[2].cells}

\* C3: inputs that overlap or share an edge (a connected union) come back as
\* a single polygon with no interior hole.
C3_SinglePolygonNoHoles ==
    (Done /\ Len(PartsSeq(InputFootprint)) = 1) =>
        /\ Len(clipped_.rows) = 1
        /\ clipped_.rows[1].type = "Polygon"
        /\ ~HasHole(clipped_.rows[1].cells)

\* C8: the returned series carries the CRS of the input on every path.
C8_SameCRS == Done => clipped_.crs = df.crs

-----------------------------------------------------------------------------
(* Properties of the normalisation loop: checked under SpecNorm *)

RowsAfter(l) == SubSeq(clipped.rows, l + 1, Len(clipped.rows))

ExplodedRows(l) ==
    LET parts == PartsSeq(clipped.rows[l].cells)
    IN  [k \in DOMAIN parts |-> [type |-> "Polygon", cells |-> parts[k]]]

MultiRows == {k \in DOMAIN clipped.rows : clipped.rows[k].type = "MultiPolygon"}

\* C10: the returned series holds no MultiPolygon row; with no MultiPolygon
\* in the buffered result it is that result row for row, otherwise it holds
\* the exploded parts of the last MultiPolygon row and the rows after that
\* row, and nothing else.
C10_NoMultiPolygonReturned ==
    Done =>
        /\ \A k \in DOMAIN clipped_.rows : clipped_.rows[k].type # "MultiPolygon"
        /\ MultiRows = {} => clipped_ = clipped
        /\ MultiRows # {} =>
              LET l == CHOOSE m \in MultiRows : \A n \in MultiRows : n <= m
              IN  /\ Len(clipped_.rows) = Len(clipped.rows) - l + Len(PartsSeq(clipped.rows[l].cells))
                  /\ Range(clipped_.rows) = Range(RowsAfter(l)) \cup Range(ExplodedRows(l))

\* C10's case: two MultiPolygon rows, the assignment made for the first
\* overwritten by the one made for the second.
C10_Witness ==
    /\ Done
    /\ Cardinality(MultiRows) >= 2
    /\ \A k \in DOMAIN clipped_.rows : clipped_.rows[k].type = "Polygon"

-----------------------------------------------------------------------------
(* Properties of close_holes and fill_geopandas: checked under SpecFill *)

Produced == 1..Len(filled)

RingArea2(ring) == Abs(Shoelace(ring, 1))

Position(s, r) == CHOOSE k \in DOMAIN s : s[k] = r

C5_KeepsHolesAboveThreshold ==
    area_max # 0 =>
        \A k \in Produced :
            LET in == fill_df[k].interiors
                out == filled[k].interiors
            IN  /\ filled[k].exterior = fill_df[k].exterior
                /\ Range(out) \subseteq Range(in)
                /\ \A r \in Range(in) : (r \in Range(out)) <=> (RingArea2(r) > 2 * area_max)
                /\ Len(out) = Cardinality(Range(out))
                /\ \A a, b \in DOMAIN out : a < b => Position(in, out[a]) < Position(in, out[b])

\* C5's case: area_max = 1, a hole of area 2 kept and a hole of area 1 filled.
C5_Witness ==
    /\ area_max = 1
    /\ Len(filled) >= 1
    /\ \E r \in Range(fill_df[1].interiors) : RingArea2(r) = 2
    /\ \E r \in Range(fill_df[1].interiors) : RingArea2(r) = 4
    /\ Len(filled[1].interiors) = 1
    /\ RingArea2(filled[1].interiors[1]) = 4

\* C6: for every area_max, 0 included, a hole is kept when its area is above
\* area_max and filled only when its area is at most area_max.
C6_DocstringThreshold ==
    \A k \in Produced :
        \A r \in Range(fill_df[k].interiors) :
            (r \in Range(filled[k].interiors)) <=> (RingArea2(r) > 2 * area_max)

\* C7: fill_geopandas returns as many rows as it was given, row k being
\* close_holes of input row k alone, and leaves its input as it was.
C7_RowwiseMap ==
    /\ fill_df = fill_df0
    /\ Len(filled) <= Len(fill_df0)
    /\ pc = "filled" => Len(filled) = Len(fill_df0)
    /\ \A k \in Produced : filled[k] = close_holes(fill_df0[k], area_max)

\* C7's case: two rows with different rings, both mapped.
C7_Witness ==
    /\ pc = "filled"
    /\ Len(filled) = 2
    /\ fill_df0[1].interiors # fill_df0[2].interiors
    /\ filled[1].interiors # filled[2].interiors

=============================================================================
